---- MODULE Spec2Model ----
(***************************************************************************)
(* Model of the geospatial weather dashboard: the weather service          *)
(* (date-range validator, response cache, aggregator, color-rule engine,   *)
(* fetch orchestrator) and the Redux slices it publishes to.               *)
(*                                                                         *)
(* Conventions.                                                            *)
(*  - Instants are integers counting MINUTES since the Unix epoch; the     *)
(*    source counts milliseconds, and every duration it uses is a whole    *)
(*    number of minutes.                                                   *)
(*  - A JavaScript number that results from a division is an exact         *)
(*    rational [n |-> numerator, d |-> denominator] in lowest terms with   *)
(*    d > 0; floating-point rounding is not modelled.                      *)
(*  - Null stands for JavaScript null/undefined where a number or an      *)
(*    object is expected; every number that can be null or fractional is   *)
(*    a rational record, so that it can be compared with Null.             *)
(***************************************************************************)
EXTENDS Integers, Sequences, FiniteSets, TLC

VARIABLES
    now,               \* the wall clock read by Date.now() / new Date()
    weatherDataCache,  \* the module-level Map, as the sequence of its entries in Map order
    ret,               \* the last call of getCachedWeatherData: its arguments and its result
    lastPut,           \* the last call of cacheWeatherData: its arguments and the clock reading
    call,              \* the last call of a pure function: its arguments and its result
    polygons,          \* state.polygons.polygons
    isDrawing,         \* state.polygons.isDrawing
    drawingPoints,     \* state.polygons.drawingPoints
    weatherData,       \* state.dataSources.weatherData, as a set of [polygonId, data]
    isLoading,         \* state.dataSources.isLoading
    error,             \* state.dataSources.error
    selectedColorRules, \* the colorRules of the selected data source
    timeline,          \* state.timeline
    inflight,          \* the calls of fetchWeatherData that await the upstream response
    nextRid,           \* the number the next call of fetchWeatherData gets
    lastDone,          \* the call of fetchWeatherData that returned last
    pending,           \* the effects React has scheduled and not yet run
    changes            \* the state changes the user has made

cacheVars == <<weatherDataCache, ret, lastPut>>
storeVars ==
    <<polygons, isDrawing, drawingPoints, weatherData, isLoading, error,
      selectedColorRules, timeline>>
fetchVars == <<inflight, nextRid, lastDone>>
effectVars == <<pending, changes>>

vars == <<now, cacheVars, call, storeVars, fetchVars, effectVars>>

Null == [null |-> TRUE]

(***************************************************************************)
(* Bounds of the model                                                     *)
(***************************************************************************)
MaxRules == 3          \* longest rule list handed to applyColorRules
MaxSeries == 3         \* longest hourly series handed to calculateAverageValue
NumKeys == 52          \* distinct locations put into the cache in SpecCache
MaxElapsed == 5        \* minutes the clock advances at most
MaxPolygons == 1       \* polygons drawn at most
MaxDrawingPoints == 3  \* points clicked for one polygon at most
MaxRefreshes == 2      \* calls of fetchWeatherData at most
MaxInFlight == 2       \* calls of fetchWeatherData awaiting a response at most
MaxClicks == 13        \* map clicks of one drawing at most, in SpecDrawing
MaxDrawn == 2          \* polygons drawn at most, in SpecDrawing
MaxChanges == 1        \* state changes the user makes at most, in SpecEffects
MaxEffectCalls == 24   \* calls of fetchWeatherData by the effects at most

(***************************************************************************)
(* Time                                                                    *)
(***************************************************************************)
Hour == 60
Day == 24 * 60

\* 2024-01-01T12:00Z, the clock reading the model starts from
StartOfTime == 19723 * Day + 12 * Hour

(***************************************************************************)
(* Exact rationals                                                         *)
(***************************************************************************)
Abs(x) == IF x < 0 THEN -x ELSE x

RECURSIVE GCD(_, _)
GCD(a, b) == IF b = 0 THEN a ELSE GCD(b, a % b)

\* the number n / d (d > 0) in lowest terms
Rat(n, d) ==
    LET g == GCD(Abs(n), d)
    IN  [n |-> n \div g, d |-> d \div g]

\* the integer i as a number
Num(i) == [n |-> i, d |-> 1]

RatAdd(a, b) ==
    LET g == GCD(a.d, b.d)
    IN  Rat(a.n * (b.d \div g) + b.n * (a.d \div g), (a.d \div g) * b.d)

\* a / k for an integer k > 0
RatDiv(a, k) == Rat(a.n, a.d * k)

(***************************************************************************)
(* applyColorRules                                                         *)
(***************************************************************************)
DefaultColor == "#3388ff"

Operators == {"<", "<=", "=", ">=", ">"}

\* the switch over rule.operator; value is a rational, rule.value an integer
RuleMatches(value, rule) ==
    CASE rule.operator = "<"  -> value.n < rule.value * value.d
      [] rule.operator = "<=" -> value.n <= rule.value * value.d
      [] rule.operator = "="  -> 10 * Abs(value.n - rule.value * value.d) < value.d
      [] rule.operator = ">=" -> value.n >= rule.value * value.d
      [] rule.operator = ">"  -> value.n > rule.value * value.d
      [] OTHER -> FALSE

\* one step of the stable sort: r goes after every rule whose value is not larger
RECURSIVE InsertRule(_, _)
InsertRule(r, sorted) ==
    IF sorted = <<>> THEN <<r>>
    ELSE IF sorted[Len(sorted)].value <= r.value THEN Append(sorted, r)
    ELSE Append(InsertRule(r, SubSeq(sorted, 1, Len(sorted) - 1)), sorted[Len(sorted)])

\* [...colorRules].sort((a, b) => a.value - b.value): ascending and stable
RECURSIVE SortRules(_)
SortRules(rules) ==
    IF rules = <<>> THEN <<>>
    ELSE InsertRule(rules[Len(rules)], SortRules(SubSeq(rules, 1, Len(rules) - 1)))

\* the loop as it would be with a break after the first match
RECURSIVE LastMatch_FirstWins(_, _, _)
LastMatch_FirstWins(value, sortedRules, matchedColor) ==
    IF sortedRules = <<>> THEN matchedColor
    ELSE IF RuleMatches(value, Head(sortedRules)) THEN Head(sortedRules).color
    ELSE LastMatch_FirstWins(value, Tail(sortedRules), matchedColor)

\* the for loop: every matching rule overwrites matchedColor
RECURSIVE LastMatch(_, _, _)
LastMatch(value, sortedRules, matchedColor) ==
    IF sortedRules = <<>> THEN matchedColor
    ELSE LastMatch(value, Tail(sortedRules),
                   IF RuleMatches(value, Head(sortedRules))
                   THEN Head(sortedRules).color ELSE matchedColor)

\* colorRules is always an array here: both callers pass the rule list of the
\* selected data source, and fetchWeatherData passes colorRules || []
applyColorRules(value, colorRules) ==
    IF Len(colorRules) = 0 THEN DefaultColor
    ELSE LastMatch(value, SortRules(colorRules), DefaultColor)

(***************************************************************************)
(* calculateAverageValue                                                   *)
(***************************************************************************)
\* A time string of the hourly series: [iso |-> t] parses to the instant t,
\* any other string parses to an Invalid Date.
TimeStr(t) == [iso |-> t]
GarbageTimeStr == [garbage |-> TRUE]

\* new Date(timeStr) is a valid date
ParsesToDate(timeStr) == "iso" \in DOMAIN timeStr

\* the window test with the end bound excluded
TimeInRange_ExclusiveEnd(timeStr, startTime, endTime) ==
    /\ "iso" \in DOMAIN timeStr
    /\ timeStr.iso >= startTime
    /\ timeStr.iso < endTime

\* time >= startTime && time <= endTime for time = new Date(timeStr);
\* an Invalid Date compares false with everything
TimeInRange(timeStr, startTime, endTime) ==
    /\ ParsesToDate(timeStr)
    /\ timeStr.iso >= startTime
    /\ timeStr.iso <= endTime

\* data[index] of a JavaScript array: undefined past its end
At(data, index) == IF index \in 1..Len(data) THEN data[index] ELSE Null

\* the forEach over timeArray: the values pushed, in order
RECURSIVE ValuesInRange(_, _, _, _, _)
ValuesInRange(data, timeArray, startTime, endTime, index) ==
    IF index > Len(timeArray) THEN <<>>
    ELSE LET rest == ValuesInRange(data, timeArray, startTime, endTime, index + 1)
         IN  IF /\ TimeInRange(timeArray[index], startTime, endTime)
                /\ At(data, index) # Null
             THEN <<data[index]>> \o rest
             ELSE rest

\* the series as it is, absent values kept
ValidData_NoFilter(data) == data

\* data.filter(val => val !== null && val !== undefined)
RECURSIVE ValidData(_)
ValidData(data) ==
    IF data = <<>> THEN <<>>
    ELSE IF Head(data) # Null THEN <<Head(data)>> \o ValidData(Tail(data))
    ELSE ValidData(Tail(data))

\* values.reduce((sum, val) => sum + val, 0)
RECURSIVE SumSeq(_)
SumSeq(values) ==
    IF values = <<>> THEN Num(0)
    ELSE RatAdd(SumSeq(SubSeq(values, 1, Len(values) - 1)), values[Len(values)])

calculateAverageValue(data, timeArray, startTime, endTime) ==
    LET values == ValuesInRange(data, timeArray, startTime, endTime, 1)
        validData == ValidData(data)
    IN  IF Len(values) = 0
        THEN IF Len(validData) > 0 THEN validData[Len(validData)] ELSE Num(0)
        ELSE RatDiv(SumSeq(values), Len(values))

(***************************************************************************)
(* validateDateRange                                                       *)
(***************************************************************************)
maxRangeDays == 30

\* new Date('1940-01-01'): 10957 days before the epoch
oldestDate == (0 - 10957) * Day

\* Math.floor in the place of Math.ceil
CeilDiv_Floor(x, y) == x \div y

\* Math.ceil(x / y) for y > 0
CeilDiv(x, y) == 0 - ((0 - x) \div y)

\* the validator with the span rule tried before the future-start rule
validateDateRange_SpanFirst(startDate, endDate, clock) ==
    IF CeilDiv(endDate - startDate, Day) > maxRangeDays
    THEN [isValid |-> FALSE, adjustedStart |-> endDate - maxRangeDays * Day,
          adjustedEnd |-> endDate]
    ELSE IF startDate > clock
    THEN [isValid |-> FALSE, adjustedStart |-> clock - Day, adjustedEnd |-> clock]
    ELSE IF startDate < oldestDate
    THEN [isValid |-> FALSE, adjustedStart |-> oldestDate, adjustedEnd |-> endDate]
    ELSE [isValid |-> TRUE]

\* clock is the reading of new Date() inside the function
validateDateRange(startDate, endDate, clock) ==
    LET rangeDays == CeilDiv(endDate - startDate, Day)
    IN  IF startDate > clock
        THEN [isValid |-> FALSE, adjustedStart |-> clock - Day, adjustedEnd |-> clock]
        ELSE IF rangeDays > maxRangeDays
        THEN [isValid |-> FALSE, adjustedStart |-> endDate - maxRangeDays * Day,
              adjustedEnd |-> endDate]
        ELSE IF startDate < oldestDate
        THEN [isValid |-> FALSE, adjustedStart |-> oldestDate, adjustedEnd |-> endDate]
        ELSE [isValid |-> TRUE]

\* validation.adjustedStart || startDate
actualStartDate(validation, startDate) ==
    IF "adjustedStart" \in DOMAIN validation THEN validation.adjustedStart ELSE startDate

\* validation.adjustedEnd || endDate
actualEndDate(validation, endDate) ==
    IF "adjustedEnd" \in DOMAIN validation THEN validation.adjustedEnd ELSE endDate

(***************************************************************************)
(* The response cache                                                      *)
(***************************************************************************)
\* 5 * 60 * 1000 milliseconds, in minutes
CACHE_DURATION == 5

\* the size above which cacheWeatherData cleans up
MaxCacheEntries == 50

\* the number of entries one clean-up deletes
EvictCount == 10

\* x.toFixed(4): the decimal string of x rounded to 4 places, ties away from
\* zero, as the integer count of 1/10000ths it spells
toFixed4(x) ==
    LET whole == Abs(x.n) \div x.d
        frac == Abs(x.n) % x.d
        q == whole * 10000 + (2 * 10000 * frac + x.d) \div (2 * x.d)
    IN  IF x.n < 0 THEN 0 - q ELSE q

\* parseFloat of a string produced by toFixed(4)
parseFloat4(str) == Rat(str, 10000)

\* date.toISOString().split('T')[0]: the UTC calendar day, as the count of
\* days since 1970-01-01 that the string YYYY-MM-DD spells
formatDateForAPI(date) == date \div Day

\* `${latitude.toFixed(4)}_${longitude.toFixed(4)}_${startDate}_${endDate}`
generateCacheKey(latitude, longitude, startDate, endDate) ==
    <<toFixed4(latitude), toFixed4(longitude), startDate, endDate>>

\* the validity test with an entry of exactly the cache duration still valid
isCacheValid_Inclusive(timestamp, clock) == clock - timestamp <= CACHE_DURATION

\* Date.now() - timestamp < CACHE_DURATION
isCacheValid(timestamp, clock) == clock - timestamp < CACHE_DURATION

\* position of key in the Map, 0 when it is not there
MapIndex(cache, key) ==
    IF \E i \in 1..Len(cache) : cache[i].key = key
    THEN CHOOSE i \in 1..Len(cache) : cache[i].key = key
    ELSE 0

MapHas(cache, key) == MapIndex(cache, key) # 0

\* Map.prototype.set: an existing key keeps its place in the iteration order
MapSet(cache, key, value) ==
    LET entry == [key |-> key, data |-> value.data, timestamp |-> value.timestamp]
    IN  IF MapHas(cache, key)
        THEN [cache EXCEPT ![MapIndex(cache, key)] = entry]
        ELSE Append(cache, entry)

\* Map.prototype.delete
MapDelete(cache, key) == SelectSeq(cache, LAMBDA e : e.key # key)

\* getCachedWeatherData: the value returned and the cache it leaves
getCachedWeatherData(cache, clock, latitude, longitude, startDate, endDate) ==
    LET cacheKey == generateCacheKey(latitude, longitude, startDate, endDate)
        i == MapIndex(cache, cacheKey)
    IN  IF i # 0 /\ isCacheValid(cache[i].timestamp, clock)
        THEN [data |-> cache[i].data, cache |-> cache]
        ELSE IF i # 0
        THEN [data |-> Null, cache |-> MapDelete(cache, cacheKey)]
        ELSE [data |-> Null, cache |-> cache]

\* one step of the stable sort of the entries by timestamp
RECURSIVE InsertEntry(_, _)
InsertEntry(e, sorted) ==
    IF sorted = <<>> THEN <<e>>
    ELSE IF sorted[Len(sorted)].timestamp <= e.timestamp THEN Append(sorted, e)
    ELSE Append(InsertEntry(e, SubSeq(sorted, 1, Len(sorted) - 1)), sorted[Len(sorted)])

\* the entries left in Map order, not sorted
SortEntries_MapOrder(entries) == entries

\* entries.sort((a, b) => a[1].timestamp - b[1].timestamp)
RECURSIVE SortEntries(_)
SortEntries(entries) ==
    IF entries = <<>> THEN <<>>
    ELSE InsertEntry(entries[Len(entries)], SortEntries(SubSeq(entries, 1, Len(entries) - 1)))

\* the clean-up with the newest entries deleted instead of the oldest
CleanUp_Newest(cache) ==
    IF Len(cache) > MaxCacheEntries
    THEN LET entries == SortEntries(cache)
             newest == {entries[i].key : i \in (Len(entries) - EvictCount + 1)..Len(entries)}
         IN  SelectSeq(cache, LAMBDA e : e.key \notin newest)
    ELSE cache

\* the clean-up starting one entry too late
CleanUp_OffByOne(cache) ==
    IF Len(cache) > MaxCacheEntries + 1
    THEN LET entries == SortEntries(cache)
             oldest == {entries[i].key : i \in 1..EvictCount}
         IN  SelectSeq(cache, LAMBDA e : e.key \notin oldest)
    ELSE cache

\* the clean-up of cacheWeatherData: delete entries[0..9] of the sorted entries
CleanUp(cache) ==
    IF Len(cache) > MaxCacheEntries
    THEN LET entries == SortEntries(cache)
             oldest == {entries[i].key : i \in 1..EvictCount}
         IN  SelectSeq(cache, LAMBDA e : e.key \notin oldest)
    ELSE cache

\* cacheWeatherData: the cache it leaves
cacheWeatherData(cache, clock, latitude, longitude, startDate, endDate, data) ==
    LET cacheKey == generateCacheKey(latitude, longitude, startDate, endDate)
    IN  CleanUp(MapSet(cache, cacheKey, [data |-> data, timestamp |-> clock]))

(***************************************************************************)
(* Calls of the pure functions with arguments drawn from bounded sets      *)
(***************************************************************************)
SeqsUpTo(S, n) == UNION {[1..k -> S] : k \in 0..n}

NoCall == [fn |-> "none"]
NoRet == [op |-> "none"]
NoPut == [op |-> "none"]

Blue == "#0000ff"
Green == "#00ff00"
Red == "#ff0000"

Rule(op, v, c) == [operator |-> op, value |-> v, color |-> c]

\* the rule set of the spec's example: >= 10 green, >= 25 red
TieredRules == <<Rule(">=", 10, Green), Rule(">=", 25, Red)>>

RulePool ==
    { Rule("<", 10, Blue), Rule(">=", 10, Green), Rule(">=", 25, Red),
      Rule("=", 10, Red), Rule("<=", 25, Blue), Rule(">", 10, Red),
      Rule(">=", 10, Red), Rule("<=", 10, Green) }

ClassifyValues ==
    { Num(5), Num(10), Num(15), Num(25), Num(30),
      Rat(199, 20), Rat(201, 20), Rat(99, 10), Rat(101, 10) }

\* a rule of a data source: the ids 'rule1', 'rule2', 'rule3' are spelled 1, 2, 3
RuleWithId(id, op, v, c) == [id |-> id, operator |-> op, value |-> v, color |-> c]

defaultColorRules ==
    <<RuleWithId(1, "<", 10, Blue), RuleWithId(2, ">=", 10, Green),
      RuleWithId(3, ">=", 25, Red)>>

\* the timeline slice as the module is loaded at StartOfTime
InitialTimeline ==
    [startTime |-> StartOfTime - 30 * Day, endTime |-> StartOfTime,
     selectedStartTime |-> StartOfTime - Day, selectedEndTime |-> StartOfTime,
     isRangeMode |-> TRUE]

\* the error slot holding null
NullError == "null"

NoDone == [none |-> TRUE]

\* the initial state of the polygon and data-source slices; no call of
\* fetchWeatherData yet
InitStore ==
    /\ polygons = <<>>
    /\ isDrawing = FALSE
    /\ drawingPoints = <<>>
    /\ weatherData = {}
    /\ isLoading = FALSE
    /\ error = NullError
    /\ selectedColorRules = defaultColorRules
    /\ timeline = InitialTimeline
    /\ inflight = {}
    /\ nextRid = 1
    /\ lastDone = NoDone
    /\ pending = {}
    /\ changes = 0

\* the other variables while a pure function is exercised
Idle ==
    /\ now = StartOfTime
    /\ weatherDataCache = <<>>
    /\ ret = NoRet
    /\ lastPut = NoPut
    /\ InitStore

Pending(c) == "result" \notin DOMAIN c

InitClassify ==
    /\ Idle
    /\ \E value \in ClassifyValues, colorRules \in SeqsUpTo(RulePool, MaxRules) :
          call = [fn |-> "applyColorRules", value |-> value, colorRules |-> colorRules]

ApplyColorRulesCall ==
    /\ call.fn = "applyColorRules"
    /\ Pending(call)
    /\ call' = [fn |-> call.fn, value |-> call.value, colorRules |-> call.colorRules,
                result |-> applyColorRules(call.value, call.colorRules)]
    /\ UNCHANGED <<now, cacheVars, storeVars, fetchVars, effectVars>>

SpecClassify == InitClassify /\ [][ApplyColorRulesCall]_vars

\* the window the aggregator is asked for in SpecAverage
WindowStart == StartOfTime - Hour
WindowEnd == StartOfTime

SeriesValues == {Num(4), Num(7), Null}

SeriesTimes ==
    { TimeStr(WindowStart - 1), TimeStr(WindowStart), TimeStr(WindowEnd),
      TimeStr(WindowEnd + 1), GarbageTimeStr }

InitAverage ==
    /\ Idle
    /\ \E data \in SeqsUpTo(SeriesValues, MaxSeries),
          timeArray \in SeqsUpTo(SeriesTimes, MaxSeries) :
          call = [fn |-> "calculateAverageValue", data |-> data, timeArray |-> timeArray,
                  startTime |-> WindowStart, endTime |-> WindowEnd]

CalculateAverageValueCall ==
    /\ call.fn = "calculateAverageValue"
    /\ Pending(call)
    /\ call' = [fn |-> call.fn, data |-> call.data, timeArray |-> call.timeArray,
                startTime |-> call.startTime, endTime |-> call.endTime,
                result |-> calculateAverageValue(call.data, call.timeArray,
                                                 call.startTime, call.endTime)]
    /\ UNCHANGED <<now, cacheVars, storeVars, fetchVars, effectVars>>

SpecAverage == InitAverage /\ [][CalculateAverageValueCall]_vars

\* requested ranges around the clock reading and around the archive's first day
StartChoices(clock) ==
    { clock + 1, clock + Day, clock + 365 * Day, clock, clock - Day, clock - 30 * Day,
      clock - 30 * Day - 1, clock - 31 * Day, clock - 60 * Day,
      oldestDate, oldestDate - 1, oldestDate - 10 * Day }

EndChoices(clock) ==
    { clock + 2 * Day, clock + 40 * Day, clock + 730 * Day, clock, clock - Day,
      clock - 2 * Day, oldestDate + 5 * Day, oldestDate + 25 * Day, oldestDate - 5 * Day }

InitValidate ==
    /\ Idle
    /\ \E startDate \in StartChoices(StartOfTime), endDate \in EndChoices(StartOfTime) :
          call = [fn |-> "validateDateRange", startDate |-> startDate, endDate |-> endDate]

\* the call of validateDateRange in fetchWeatherData and the two lines after it
ValidateDateRangeCall ==
    /\ call.fn = "validateDateRange"
    /\ Pending(call)
    /\ LET validation == validateDateRange(call.startDate, call.endDate, now)
       IN  call' = [fn |-> call.fn, startDate |-> call.startDate, endDate |-> call.endDate,
                    clock |-> now, result |-> validation,
                    actualStartDate |-> actualStartDate(validation, call.startDate),
                    actualEndDate |-> actualEndDate(validation, call.endDate)]
    /\ UNCHANGED <<now, cacheVars, storeVars, fetchVars, effectVars>>

SpecValidate == InitValidate /\ [][ValidateDateRangeCall]_vars

(***************************************************************************)
(* The cache exercised on its own: puts, lookups and the passing of time   *)
(***************************************************************************)
\* an upstream response body
Response(latitude, longitude, time, temperature_2m) ==
    [latitude |-> latitude, longitude |-> longitude,
     hourly |-> [time |-> time, temperature_2m |-> temperature_2m]]

\* the i-th location: i / 10000 degrees of latitude
KeyLat(i) == Rat(i, 10000)

\* a latitude 0.00004 degrees north of the i-th location: same 4-decimal string
NearLat(i) == Rat(10 * i + 4, 100000)

CacheLng == Rat(0 - 9, 100)
CacheStartDate == formatDateForAPI(StartOfTime - Day)
CacheEndDate == formatDateForAPI(StartOfTime)

\* the two series the upstream answers with in SpecCache
CacheSeries(i) ==
    { Response(KeyLat(i), CacheLng, <<TimeStr(StartOfTime)>>, <<Num(4)>>),
      Response(KeyLat(i), CacheLng, <<TimeStr(StartOfTime)>>, <<Num(7)>>) }

FirstSeries(i) == Response(KeyLat(i), CacheLng, <<TimeStr(StartOfTime)>>, <<Num(4)>>)

\* the locations that are put again and looked up
ProbeKeys == {1}

\* the steps the clock advances by: just inside and exactly at the cache duration
TickSteps == {CACHE_DURATION - 1, CACHE_DURATION}

KeysIn(cache) == {cache[i].key[1] : i \in 1..Len(cache)}

MaxOf(S) == IF S = {} THEN 0 ELSE CHOOSE x \in S : \A y \in S : y <= x

InitCache ==
    /\ now = StartOfTime
    /\ weatherDataCache = <<>>
    /\ ret = NoRet
    /\ lastPut = NoPut
    /\ call = NoCall
    /\ InitStore

\* time passes
Tick ==
    /\ \E d \in TickSteps :
          /\ now + d <= StartOfTime + MaxElapsed
          /\ now' = now + d
    /\ UNCHANGED <<cacheVars, call, storeVars, fetchVars, effectVars>>

\* cacheWeatherData called for the i-th location with the response data
Put(i, data) ==
    /\ weatherDataCache' =
          cacheWeatherData(weatherDataCache, now, KeyLat(i), CacheLng,
                           CacheStartDate, CacheEndDate, data)
    /\ lastPut' = [op |-> "put", latitude |-> KeyLat(i), longitude |-> CacheLng,
                   startDate |-> CacheStartDate, endDate |-> CacheEndDate,
                   data |-> data, time |-> now]
    /\ ret' = NoRet
    /\ UNCHANGED <<now, call, storeVars, fetchVars, effectVars>>

\* a response for a location not cached before; the locations come in
\* increasing order
CachePutNew ==
    LET i == MaxOf(KeysIn(weatherDataCache)) + 1
    IN  /\ i <= NumKeys
        /\ Put(i, FirstSeries(i))

\* a new response for a probe location that is in the cache
CachePutAgain ==
    \E i \in ProbeKeys \cap KeysIn(weatherDataCache) :
       \E data \in CacheSeries(i) : Put(i, data)

\* the locations looked up: the probe locations and the one stored last
GetKeys ==
    ProbeKeys \cup (IF lastPut.op = "put" THEN {toFixed4(lastPut.latitude)} ELSE {})

\* getCachedWeatherData called with a latitude that differs from the stored
\* one after the 4th decimal
CacheGet ==
    /\ \E i \in GetKeys :
          LET got == getCachedWeatherData(weatherDataCache, now, NearLat(i), CacheLng,
                                          CacheStartDate, CacheEndDate)
          IN  /\ weatherDataCache' = got.cache
              /\ ret' = [op |-> "get", latitude |-> NearLat(i), longitude |-> CacheLng,
                         startDate |-> CacheStartDate, endDate |-> CacheEndDate,
                         data |-> got.data, time |-> now]
    /\ UNCHANGED <<now, lastPut, call, storeVars, fetchVars, effectVars>>

NextCache == Tick \/ CachePutNew \/ CachePutAgain \/ CacheGet

SpecCache == InitCache /\ [][NextCache]_vars

(***************************************************************************)
(* The polygon slice                                                       *)
(***************************************************************************)
\* polygonSlice.reducers, on the triple of the slice's fields that matter
startDrawing(st) == [st EXCEPT !.isDrawing = TRUE, !.drawingPoints = <<>>]

addDrawingPoint(st, point) == [st EXCEPT !.drawingPoints = Append(@, point)]

\* finishDrawing that asks for 2 points
finishDrawing_TwoPoints(st, name, dataSourceId, clock) ==
    [st EXCEPT
       !.polygons = IF Len(st.drawingPoints) >= 2
                    THEN Append(@, [id |-> clock, name |-> name,
                                    points |-> st.drawingPoints,
                                    dataSourceId |-> dataSourceId,
                                    color |-> DefaultColor, value |-> Null])
                    ELSE @,
       !.isDrawing = FALSE,
       !.drawingPoints = <<>>]

\* clock is the reading of Date.now() that names the polygon
finishDrawing(st, name, dataSourceId, clock) ==
    [st EXCEPT
       !.polygons = IF Len(st.drawingPoints) >= 3
                    THEN Append(@, [id |-> clock, name |-> name,
                                    points |-> st.drawingPoints,
                                    dataSourceId |-> dataSourceId,
                                    color |-> DefaultColor, value |-> Null])
                    ELSE @,
       !.isDrawing = FALSE,
       !.drawingPoints = <<>>]

cancelDrawing(st) == [st EXCEPT !.isDrawing = FALSE, !.drawingPoints = <<>>]

deletePolygon(st, id) ==
    [st EXCEPT !.polygons = SelectSeq(@, LAMBDA p : p.id # id)]

\* { ...polygon, ...updates } for updates that name fields of a polygon
Merge(polygon, updates) ==
    [f \in DOMAIN polygon |-> IF f \in DOMAIN updates THEN updates[f] ELSE polygon[f]]

\* polygons.findIndex(p => p.id === id): the first match, 0 for -1
FindIndex(polys, id) ==
    IF \E i \in 1..Len(polys) : polys[i].id = id
    THEN CHOOSE i \in 1..Len(polys) :
            polys[i].id = id /\ \A j \in 1..(i - 1) : polys[j].id # id
    ELSE 0

updatePolygon(st, id, updates) ==
    LET index == FindIndex(st.polygons, id)
    IN  IF index # 0
        THEN [st EXCEPT !.polygons[index] = Merge(@, updates)]
        ELSE st

\* value is never undefined in the one dispatch of this action
updatePolygonColor(st, id, color, value) ==
    LET index == FindIndex(st.polygons, id)
    IN  IF index # 0
        THEN [st EXCEPT !.polygons[index].color = color, !.polygons[index].value = value]
        ELSE st

(***************************************************************************)
(* The color rules of the selected data source                             *)
(***************************************************************************)
addColorRule(st, rule) == [st EXCEPT !.colorRules = Append(@, rule)]

\* colorRules.find(r => r.id === ruleId) and Object.assign(rule, updates)
updateColorRule(st, ruleId, updates) ==
    IF \E i \in 1..Len(st.colorRules) : st.colorRules[i].id = ruleId
    THEN LET index == CHOOSE i \in 1..Len(st.colorRules) :
                         /\ st.colorRules[i].id = ruleId
                         /\ \A j \in 1..(i - 1) : st.colorRules[j].id # ruleId
         IN  [st EXCEPT !.colorRules[index] = Merge(@, updates)]
    ELSE st

deleteColorRule(st, ruleId) ==
    [st EXCEPT !.colorRules = SelectSeq(@, LAMBDA r : r.id # ruleId)]

(***************************************************************************)
(* The timeline slice                                                      *)
(***************************************************************************)
setSelectedTimeRange(st, start, end) ==
    [st EXCEPT !.timeline.selectedStartTime = start, !.timeline.selectedEndTime = end]

setSelectedTime(st, time) ==
    [st EXCEPT !.timeline.selectedStartTime = time, !.timeline.selectedEndTime = time]

\* toggleRangeMode that leaves the selected window as it is
toggleRangeMode_KeepsWindow(st) ==
    [st EXCEPT !.timeline.isRangeMode = ~@]

toggleRangeMode(st) ==
    IF st.timeline.isRangeMode
    THEN [st EXCEPT !.timeline.isRangeMode = FALSE,
                    !.timeline.selectedEndTime = st.timeline.selectedStartTime]
    ELSE [st EXCEPT !.timeline.isRangeMode = TRUE]

(***************************************************************************)
(* The data-source slice                                                   *)
(***************************************************************************)
setWeatherData(st, polygonId, data) ==
    [st EXCEPT !.weatherData =
        {w \in @ : w.polygonId # polygonId} \cup {[polygonId |-> polygonId, data |-> data]}]

setLoading(st, flag) == [st EXCEPT !.isLoading = flag]

setError(st, message) == [st EXCEPT !.error = message]

\* the store: the fields of the two slices
Store ==
    [polygons |-> polygons, isDrawing |-> isDrawing, drawingPoints |-> drawingPoints,
     weatherData |-> weatherData, isLoading |-> isLoading, error |-> error,
     colorRules |-> selectedColorRules, timeline |-> timeline]

\* the variables take the fields of st
StoreBecomes(st) ==
    /\ polygons' = st.polygons
    /\ isDrawing' = st.isDrawing
    /\ drawingPoints' = st.drawingPoints
    /\ weatherData' = st.weatherData
    /\ isLoading' = st.isLoading
    /\ error' = st.error
    /\ selectedColorRules' = st.colorRules
    /\ timeline' = st.timeline

\* the actions fetchWeatherData dispatches
SetLoading(flag) == [type |-> "setLoading", isLoading |-> flag]
SetError(message) == [type |-> "setError", error |-> message]
SetWeatherData(polygonId, data) ==
    [type |-> "setWeatherData", polygonId |-> polygonId, data |-> data]
UpdatePolygonColor(id, color, value) ==
    [type |-> "updatePolygonColor", id |-> id, color |-> color, value |-> value]

\* store.dispatch(action)
Reduce(st, action) ==
    CASE action.type = "setLoading" -> setLoading(st, action.isLoading)
      [] action.type = "setError" -> setError(st, action.error)
      [] action.type = "setWeatherData" -> setWeatherData(st, action.polygonId, action.data)
      [] action.type = "updatePolygonColor" ->
            updatePolygonColor(st, action.id, action.color, action.value)

\* the actions dispatched one after the other
RECURSIVE ReduceAll(_, _)
ReduceAll(st, actions) ==
    IF actions = <<>> THEN st
    ELSE ReduceAll(Reduce(st, Head(actions)), Tail(actions))

(***************************************************************************)
(* fetchWeatherData                                                        *)
(***************************************************************************)
RECURSIVE SumLat(_)
SumLat(points) ==
    IF points = <<>> THEN Num(0)
    ELSE RatAdd(SumLat(SubSeq(points, 1, Len(points) - 1)), points[Len(points)].lat)

RECURSIVE SumLng(_)
SumLng(points) ==
    IF points = <<>> THEN Num(0)
    ELSE RatAdd(SumLng(SubSeq(points, 1, Len(points) - 1)), points[Len(points)].lng)

\* the polygons of the model have at least one point
getPolygonCentroid(points) ==
    [lat |-> RatDiv(SumLat(points), Len(points)),
     lng |-> RatDiv(SumLng(points), Len(points))]

\* data.hourly && data.hourly.temperature_2m && data.hourly.time
HasSeries(data) ==
    /\ "hourly" \in DOMAIN data
    /\ "temperature_2m" \in DOMAIN data.hourly
    /\ "time" \in DOMAIN data.hourly

\* what a try block throws
NoThrow == [none |-> TRUE]

AxiosError(status, code, reason, message) ==
    [isAxiosError |-> TRUE, status |-> status, code |-> code, reason |-> reason,
     message |-> message]

\* throw new Error(message)
PlainError(message) ==
    [isAxiosError |-> FALSE, status |-> 0, code |-> "", reason |-> "", message |-> message]

FailedMessage == "Failed to fetch weather data"
RateLimitMessage == "API rate limit exceeded. Please try again later."
UnavailableMessage == "Weather service temporarily unavailable."
TimeoutMessage == "Request timeout. Please check your connection."
InvalidFormatMessage == "Invalid response format from Open-Meteo API"

\* the one reason text an upstream error body carries in the model
OutOfRangeReason == "Parameter out of range"

\* `API Error: ${error.response.data.reason}`, for the reasons of the model
ApiErrorMessage(reason) ==
    CASE reason = OutOfRangeReason -> "API Error: Parameter out of range"

\* the catch block with the timeout test ahead of the status tests
errorMessage_TimeoutFirst(thrown) ==
    IF thrown.isAxiosError
    THEN IF thrown.code = "ECONNABORTED" THEN TimeoutMessage
         ELSE IF thrown.status = 429 THEN RateLimitMessage
         ELSE IF thrown.status # 0 /\ thrown.status >= 500 THEN UnavailableMessage
         ELSE IF thrown.status # 0 /\ thrown.reason # "" THEN ApiErrorMessage(thrown.reason)
         ELSE FailedMessage
    ELSE thrown.message

\* the catch block: status 0 stands for no response, "" for no reason
errorMessage(thrown) ==
    IF thrown.isAxiosError
    THEN IF thrown.status = 429 THEN RateLimitMessage
         ELSE IF thrown.status # 0 /\ thrown.status >= 500 THEN UnavailableMessage
         ELSE IF thrown.code = "ECONNABORTED" THEN TimeoutMessage
         ELSE IF thrown.status # 0 /\ thrown.reason # "" THEN ApiErrorMessage(thrown.reason)
         ELSE FailedMessage
    ELSE thrown.message

\* the lines from the start of the try block to the cache lookup; both
\* callers pass the two selected instants, so the defaults are never taken
Prepare(rid, polygon, selectedStartTime, selectedEndTime, colorRules, clock) ==
    LET centroid == getPolygonCentroid(polygon.points)
        validation == validateDateRange(selectedStartTime, selectedEndTime, clock)
        actualStart == actualStartDate(validation, selectedStartTime)
        actualEnd == actualEndDate(validation, selectedEndTime)
    IN  [rid |-> rid, polygon |-> polygon, colorRules |-> colorRules,
         selectedStartTime |-> selectedStartTime, selectedEndTime |-> selectedEndTime,
         actualStartDate |-> actualStart, actualEndDate |-> actualEnd,
         startDateStr |-> formatDateForAPI(actualStart),
         endDateStr |-> formatDateForAPI(actualEnd),
         latitude |-> parseFloat4(toFixed4(centroid.lat)),
         longitude |-> parseFloat4(toFixed4(centroid.lng))]

\* the rest of the try block with a body lacking the series painted in the
\* default color before the throw
TryRest_PaintsOnFailure(req, data) ==
    IF HasSeries(data)
    THEN LET series == [latitude |-> data.latitude, longitude |-> data.longitude,
                        time |-> data.hourly.time,
                        temperature_2m |-> data.hourly.temperature_2m]
             averageValue == calculateAverageValue(data.hourly.temperature_2m,
                                 data.hourly.time, req.actualStartDate, req.actualEndDate)
             color == applyColorRules(averageValue, req.colorRules)
         IN  [actions |-> <<SetWeatherData(req.polygon.id, series),
                            UpdatePolygonColor(req.polygon.id, color, averageValue)>>,
              thrown |-> NoThrow]
    ELSE [actions |-> <<UpdatePolygonColor(req.polygon.id, DefaultColor, Num(0))>>,
          thrown |-> PlainError(InvalidFormatMessage)]

\* the rest of the try block once data is there: the actions it dispatches
\* and what it throws
TryRest(req, data) ==
    IF HasSeries(data)
    THEN LET series == [latitude |-> data.latitude, longitude |-> data.longitude,
                        time |-> data.hourly.time,
                        temperature_2m |-> data.hourly.temperature_2m]
             averageValue == calculateAverageValue(data.hourly.temperature_2m,
                                 data.hourly.time, req.actualStartDate, req.actualEndDate)
             color == applyColorRules(averageValue, req.colorRules)
         IN  [actions |-> <<SetWeatherData(req.polygon.id, series),
                            UpdatePolygonColor(req.polygon.id, color, averageValue)>>,
              thrown |-> NoThrow]
    ELSE [actions |-> <<>>, thrown |-> PlainError(InvalidFormatMessage)]

\* the catch block, with setLoading(false) at the end of the try block
\* and no finally block
CatchFinally_LoadingInTry(thrown) ==
    IF thrown = NoThrow THEN <<SetLoading(FALSE)>> ELSE <<SetError(errorMessage(thrown))>>

\* the catch and finally blocks: the actions they dispatch
CatchFinally(thrown) ==
    (IF thrown = NoThrow THEN <<>> ELSE <<SetError(errorMessage(thrown))>>)
        \o <<SetLoading(FALSE)>>

\* the try block without the clearing of the error
FirstActions_KeepsError == <<SetLoading(TRUE)>>

\* the first two statements of the try block
FirstActions == <<SetLoading(TRUE), SetError(NullError)>>

\* fetchWeatherData returns: the call, the body it examined (null when the
\* request failed) and all it dispatched are recorded
Done(req, attempt, hit, data) ==
    [polygonId |-> req.polygon.id, hit |-> hit, data |-> data,
     thrown |-> attempt.thrown,
     log |-> FirstActions \o attempt.actions \o CatchFinally(attempt.thrown)]

(***************************************************************************)
(* The application: drawing, the clock, refreshes and the upstream         *)
(***************************************************************************)
\* the map positions a click can give: 0.0004 degrees of latitude apart
PointA == [lat |-> Rat(515000, 10000), lng |-> Rat(0 - 9, 100)]
PointB == [lat |-> Rat(515004, 10000), lng |-> Rat(0 - 9, 100)]
ClickPoints == {PointA, PointB}

\* where the k-th click of a drawing lands: the third one anywhere in
\* ClickPoints, the others at PointA
ClickAt(k) == IF k = 3 THEN ClickPoints ELSE {PointA}

\* the selected windows a caller passes: the last day, and one that starts
\* in the future
SelectedWindows ==
    { [start |-> StartOfTime - Day, end |-> StartOfTime],
      [start |-> StartOfTime + Day, end |-> StartOfTime + 2 * Day] }

\* the rule lists a caller passes: those of the selected data source
RuleChoices == {defaultColorRules}

UpstreamTime == <<TimeStr(StartOfTime - Hour), TimeStr(StartOfTime)>>

\* the 2xx bodies of the upstream: a well-formed one, one without hourly, one
\* whose hourly lacks temperature_2m
UpstreamBodies(req) ==
    { Response(req.latitude, req.longitude, UpstreamTime, <<Num(8), Num(12)>>),
      [latitude |-> req.latitude, longitude |-> req.longitude],
      [latitude |-> req.latitude, longitude |-> req.longitude,
       hourly |-> [time |-> UpstreamTime]] }

\* what axios.get rejects with: status 0 is a failure without a response
UpstreamErrors ==
    { AxiosError(429, "ECONNABORTED", OutOfRangeReason, "Request failed with status code 429"),
      AxiosError(500, "ECONNABORTED", OutOfRangeReason, "Request failed with status code 500"),
      AxiosError(400, "ECONNABORTED", OutOfRangeReason, "Request failed with status code 400"),
      AxiosError(400, "ERR_BAD_REQUEST", OutOfRangeReason, "Request failed with status code 400"),
      AxiosError(0, "ECONNABORTED", "", "timeout of 10000ms exceeded"),
      AxiosError(0, "ERR_NETWORK", "", "Network Error") }

Init ==
    /\ now = StartOfTime
    /\ weatherDataCache = <<>>
    /\ ret = NoRet
    /\ lastPut = NoPut
    /\ call = NoCall
    /\ InitStore

\* the cache duration passes
TimePasses ==
    /\ now + CACHE_DURATION <= StartOfTime + MaxElapsed
    /\ now' = now + CACHE_DURATION
    /\ UNCHANGED <<cacheVars, call, storeVars, fetchVars, effectVars>>

\* the draw button
StartDrawing ==
    /\ ~isDrawing
    /\ Len(polygons) < MaxPolygons
    /\ StoreBecomes(startDrawing(Store))
    /\ UNCHANGED <<now, cacheVars, call, fetchVars, effectVars>>

\* handleMapClick
AddDrawingPoint ==
    /\ isDrawing
    /\ Len(drawingPoints) < MaxDrawingPoints
    /\ \E point \in ClickAt(Len(drawingPoints) + 1) : StoreBecomes(addDrawingPoint(Store, point))
    /\ UNCHANGED <<now, cacheVars, call, fetchVars, effectVars>>

\* handleFinishDrawing
FinishDrawing ==
    /\ isDrawing
    /\ IF Len(drawingPoints) >= 3
       THEN StoreBecomes(finishDrawing(Store, now, "temperature", now))
       ELSE UNCHANGED storeVars
    /\ UNCHANGED <<now, cacheVars, call, fetchVars, effectVars>>

\* handleCancelDrawing
CancelDrawing ==
    /\ isDrawing
    /\ StoreBecomes(cancelDrawing(Store))
    /\ UNCHANGED <<now, cacheVars, call, fetchVars, effectVars>>

\* the delete button of a polygon
DeletePolygon ==
    /\ \E i \in 1..Len(polygons) : StoreBecomes(deletePolygon(Store, polygons[i].id))
    /\ UNCHANGED <<now, cacheVars, call, fetchVars, effectVars>>

\* fetchWeatherData called on the store st: it runs to its first await, or
\* to its end when the cache has the data
StartFetch(st, polygon, selectedStartTime, selectedEndTime, colorRules) ==
    LET req == Prepare(nextRid, polygon, selectedStartTime, selectedEndTime, colorRules, now)
        got == getCachedWeatherData(weatherDataCache, now, req.latitude,
                                    req.longitude, req.startDateStr, req.endDateStr)
    IN  /\ weatherDataCache' = got.cache
        /\ IF got.data # Null
           THEN LET attempt == TryRest(req, got.data)
                IN  /\ StoreBecomes(ReduceAll(st,
                           FirstActions \o attempt.actions
                               \o CatchFinally(attempt.thrown)))
                    /\ lastDone' = Done(req, attempt, TRUE, got.data)
                    /\ inflight' = inflight
           ELSE /\ StoreBecomes(ReduceAll(st, FirstActions))
                /\ inflight' = inflight \cup {req}
                /\ lastDone' = lastDone
        /\ nextRid' = nextRid + 1

\* fetchWeatherData is called for a polygon of the store
StartRefresh ==
    /\ nextRid <= MaxRefreshes
    /\ Cardinality(inflight) < MaxInFlight
    /\ \E i \in 1..Len(polygons), window \in SelectedWindows, colorRules \in RuleChoices :
          StartFetch(Store, polygons[i], window.start, window.end, colorRules)
    /\ UNCHANGED <<now, ret, lastPut, call, effectVars>>

\* the body is cached only after it has been found to hold the series
Resolve_CachesValidOnly(req, data) ==
    LET attempt == TryRest(req, data)
    IN  /\ weatherDataCache' =
               IF attempt.thrown = NoThrow
               THEN cacheWeatherData(weatherDataCache, now, req.latitude,
                        req.longitude, req.startDateStr, req.endDateStr, data)
               ELSE weatherDataCache
        /\ StoreBecomes(ReduceAll(Store,
               attempt.actions \o CatchFinally(attempt.thrown)))
        /\ lastDone' = Done(req, attempt, FALSE, data)
        /\ inflight' = inflight \ {req}

\* a call drops its publications when a later call is still in flight
Resolve_LatestCallOnly(req, data) ==
    LET attempt == TryRest(req, data)
        stale == \E other \in inflight : other.rid > req.rid
    IN  /\ weatherDataCache' =
               cacheWeatherData(weatherDataCache, now, req.latitude,
                   req.longitude, req.startDateStr, req.endDateStr, data)
        /\ StoreBecomes(ReduceAll(Store,
               IF stale THEN CatchFinally(NoThrow)
               ELSE attempt.actions \o CatchFinally(attempt.thrown)))
        /\ lastDone' = Done(req, attempt, FALSE, data)
        /\ inflight' = inflight \ {req}

\* axios.get of the call req resolves with the body data: the body is
\* cached, then examined
Resolve(req, data) ==
    LET attempt == TryRest(req, data)
    IN  /\ weatherDataCache' =
               cacheWeatherData(weatherDataCache, now, req.latitude,
                   req.longitude, req.startDateStr, req.endDateStr, data)
        /\ StoreBecomes(ReduceAll(Store,
               attempt.actions \o CatchFinally(attempt.thrown)))
        /\ lastDone' = Done(req, attempt, FALSE, data)
        /\ inflight' = inflight \ {req}

UpstreamResponds ==
    /\ \E req \in inflight :
          \E data \in UpstreamBodies(req) : Resolve(req, data)
    /\ UNCHANGED <<now, ret, lastPut, call, nextRid, effectVars>>

\* axios.get rejects
UpstreamFails ==
    /\ \E req \in inflight :
          \E thrown \in UpstreamErrors :
             LET attempt == [actions |-> <<>>, thrown |-> thrown]
             IN  /\ StoreBecomes(ReduceAll(Store, CatchFinally(thrown)))
                 /\ lastDone' = Done(req, attempt, FALSE, Null)
                 /\ inflight' = inflight \ {req}
    /\ UNCHANGED <<now, cacheVars, call, nextRid, effectVars>>

(***************************************************************************)
(* The polygon slice on its own: every reducer dispatched in any order     *)
(***************************************************************************)
\* the name the rename dialog saves
NewName == 0

InitPolygons == Init

DispatchStartDrawing ==
    /\ StoreBecomes(startDrawing(Store))
    /\ UNCHANGED <<now, cacheVars, call, fetchVars, effectVars>>

DispatchAddDrawingPoint ==
    /\ Len(drawingPoints) < MaxDrawingPoints
    /\ \E point \in ClickAt(Len(drawingPoints) + 1) : StoreBecomes(addDrawingPoint(Store, point))
    /\ UNCHANGED <<now, cacheVars, call, fetchVars, effectVars>>

DispatchFinishDrawing ==
    /\ Len(polygons) < MaxPolygons
    /\ StoreBecomes(finishDrawing(Store, now, "temperature", now))
    /\ UNCHANGED <<now, cacheVars, call, fetchVars, effectVars>>

DispatchCancelDrawing ==
    /\ StoreBecomes(cancelDrawing(Store))
    /\ UNCHANGED <<now, cacheVars, call, fetchVars, effectVars>>

\* handleSavePolygonEdit: the only dispatch of updatePolygon
DispatchRename ==
    /\ \E i \in 1..Len(polygons) :
          StoreBecomes(updatePolygon(Store, polygons[i].id, [name |-> NewName]))
    /\ UNCHANGED <<now, cacheVars, call, fetchVars, effectVars>>

\* the dispatch of updatePolygonColor by a refresh, for a polygon that is
\* there or one that is not
DispatchColorUpdate ==
    /\ \E id \in {polygons[i].id : i \in 1..Len(polygons)} \cup {0} :
          StoreBecomes(updatePolygonColor(Store, id, Green, Num(10)))
    /\ UNCHANGED <<now, cacheVars, call, fetchVars, effectVars>>

NextPolygons ==
    \/ DispatchStartDrawing
    \/ DispatchAddDrawingPoint
    \/ DispatchFinishDrawing
    \/ DispatchCancelDrawing
    \/ DispatchRename
    \/ DispatchColorUpdate
    \/ DeletePolygon
    \/ TimePasses

SpecPolygons == InitPolygons /\ [][NextPolygons]_vars

(***************************************************************************)
(* The drawing tool on its own: long drawings and several polygons        *)
(***************************************************************************)
InitDrawing == Init

\* handleStartDrawing, when no drawing is in progress
ClickDrawButton ==
    /\ ~isDrawing
    /\ Len(polygons) < MaxDrawn
    /\ StoreBecomes(startDrawing(Store))
    /\ UNCHANGED <<now, cacheVars, call, fetchVars, effectVars>>

\* handleMapClick
ClickMap ==
    /\ isDrawing
    /\ Len(drawingPoints) < MaxClicks
    /\ StoreBecomes(addDrawingPoint(Store, PointA))
    /\ UNCHANGED <<now, cacheVars, call, fetchVars, effectVars>>

NextDrawing ==
    \/ ClickDrawButton
    \/ ClickMap
    \/ FinishDrawing
    \/ CancelDrawing
    \/ DeletePolygon
    \/ TimePasses

SpecDrawing == InitDrawing /\ [][NextDrawing]_vars

(***************************************************************************)
(* The timeline controls                                                   *)
(***************************************************************************)
Min(a, b) == IF a <= b THEN a ELSE b

Max2(a, b) == IF a >= b THEN a ELSE b

\* the positions of the slider the model moves a handle to: they lie between
\* min and max on the 15-minute grid
SliderStops ==
    { timeline.startTime, timeline.startTime + 15, timeline.startTime + Day,
      timeline.endTime - 7 * Day, timeline.endTime - Day, timeline.endTime - 12 * Hour,
      timeline.endTime - 6 * Hour, timeline.endTime - Hour, timeline.endTime - 15,
      timeline.endTime }

\* the hours of the three quick-select buttons
QuickSelectHours == {1, 6, 24}

InitTimeline == Init

\* the Switch
ToggleRangeMode ==
    /\ StoreBecomes(toggleRangeMode(Store))
    /\ UNCHANGED <<now, cacheVars, call, fetchVars, effectVars>>

\* handleSliderChange: the range slider hands over a pair, the single
\* slider a number
SliderChange ==
    /\ IF timeline.isRangeMode
       THEN \E start \in SliderStops, end \in SliderStops :
               /\ start <= end
               /\ StoreBecomes(setSelectedTimeRange(Store, start, end))
       ELSE \E value \in SliderStops : StoreBecomes(setSelectedTime(Store, value))
    /\ UNCHANGED <<now, cacheVars, call, fetchVars, effectVars>>

\* the buttons Last Hour, Last 6 Hours, Last 24 Hours
QuickSelect ==
    /\ \E hours \in QuickSelectHours :
          LET end == Min(now, timeline.endTime)
              start == Max2(end - hours * Hour, timeline.startTime)
          IN  IF timeline.isRangeMode
              THEN StoreBecomes(setSelectedTimeRange(Store, start, end))
              ELSE StoreBecomes(setSelectedTime(Store, end))
    /\ UNCHANGED <<now, cacheVars, call, fetchVars, effectVars>>

NextTimeline == ToggleRangeMode \/ SliderChange \/ QuickSelect \/ TimePasses

SpecTimeline == InitTimeline /\ [][NextTimeline]_vars

(***************************************************************************)
(* The rule editor: one polygon, rule edits, and an upstream that succeeds *)
(***************************************************************************)
\* the polygon a user has drawn at StartOfTime
DrawnPolygon ==
    [id |-> StartOfTime, name |-> StartOfTime, points |-> <<PointA, PointA, PointB>>,
     dataSourceId |-> "temperature", color |-> DefaultColor, value |-> Null]

\* the rule the add form holds: its initial fields, and the id from Date.now()
NewRule == RuleWithId(now, ">", 0, "#1890ff")

\* the changes the rule editor makes to a rule
RuleUpdates == {[color |-> Red], [value |-> 5]}

RuleIds == {selectedColorRules[i].id : i \in 1..Len(selectedColorRules)}

InitRules ==
    /\ now = StartOfTime
    /\ weatherDataCache = <<>>
    /\ ret = NoRet
    /\ lastPut = NoPut
    /\ call = NoCall
    /\ polygons = <<DrawnPolygon>>
    /\ isDrawing = FALSE
    /\ drawingPoints = <<>>
    /\ weatherData = {}
    /\ isLoading = FALSE
    /\ error = NullError
    /\ selectedColorRules = defaultColorRules
    /\ timeline = InitialTimeline
    /\ inflight = {}
    /\ nextRid = 1
    /\ lastDone = NoDone
    /\ pending = {}
    /\ changes = 0

\* the effect updatePolygonColors runs on the store st: with one polygon, its
\* loop is one call of fetchWeatherData
UpdatePolygonColorsEffect(st) ==
    /\ nextRid <= MaxRefreshes
    /\ Cardinality(inflight) < MaxInFlight
    /\ Len(st.polygons) = 1
    /\ StartFetch(st, st.polygons[1], st.timeline.selectedStartTime,
                  st.timeline.selectedEndTime, st.colorRules)

\* the effect runs for another of its dependencies
EffectRuns ==
    /\ UpdatePolygonColorsEffect(Store)
    /\ UNCHANGED <<now, ret, lastPut, call, effectVars>>

\* handleAddRule, and the effect that the new rule list triggers
AddColorRule ==
    /\ UpdatePolygonColorsEffect(addColorRule(Store, NewRule))
    /\ UNCHANGED <<now, ret, lastPut, call, effectVars>>

\* handleUpdateRule, and the effect
UpdateColorRule ==
    /\ \E ruleId \in RuleIds, updates \in RuleUpdates :
          UpdatePolygonColorsEffect(updateColorRule(Store, ruleId, updates))
    /\ UNCHANGED <<now, ret, lastPut, call, effectVars>>

\* handleDeleteRule, and the effect
DeleteColorRule ==
    /\ \E ruleId \in RuleIds :
          UpdatePolygonColorsEffect(deleteColorRule(Store, ruleId))
    /\ UNCHANGED <<now, ret, lastPut, call, effectVars>>

\* axios.get resolves with a well-formed body
UpstreamSucceeds ==
    /\ \E req \in inflight :
          Resolve(req, Response(req.latitude, req.longitude, UpstreamTime,
                                <<Num(8), Num(12)>>))
    /\ UNCHANGED <<now, ret, lastPut, call, nextRid, effectVars>>

NextRules ==
    \/ EffectRuns
    \/ AddColorRule
    \/ UpdateColorRule
    \/ DeleteColorRule
    \/ UpstreamSucceeds

SpecRules == InitRules /\ [][NextRules]_vars

(***************************************************************************)
(* The effects: the two components that call fetchWeatherData when their   *)
(* dependencies change, and the changes that fetchWeatherData itself makes *)
(***************************************************************************)
\* the effect of MapContainer and the effect of DataSourceSidebar
Effects == {"map", "sidebar"}

\* the effects React schedules when the store goes from old to new: both
\* dependency lists hold the polygon list, the selected window and the data
\* sources, and a reducer that assigns equal values leaves them as they were
Triggered(old, new) ==
    IF \/ old.polygons # new.polygons
       \/ old.colorRules # new.colorRules
       \/ old.timeline.selectedStartTime # new.timeline.selectedStartTime
       \/ old.timeline.selectedEndTime # new.timeline.selectedEndTime
    THEN Effects
    ELSE {}

\* the user has pressed the draw button and clicked three points of the map
InitEffects ==
    /\ now = StartOfTime
    /\ weatherDataCache = <<>>
    /\ ret = NoRet
    /\ lastPut = NoPut
    /\ call = NoCall
    /\ polygons = <<>>
    /\ isDrawing = TRUE
    /\ drawingPoints = <<PointA, PointA, PointB>>
    /\ weatherData = {}
    /\ isLoading = FALSE
    /\ error = NullError
    /\ selectedColorRules = defaultColorRules
    /\ timeline = InitialTimeline
    /\ inflight = {}
    /\ nextRid = 1
    /\ lastDone = NoDone
    /\ pending = {}
    /\ changes = 0

\* a handler of the user takes the store to st
UserChange(st) ==
    /\ changes < MaxChanges
    /\ StoreBecomes(st)
    /\ pending' = pending \cup Triggered(Store, st)
    /\ changes' = changes + 1
    /\ UNCHANGED <<now, cacheVars, call, fetchVars>>

\* handleFinishDrawing gives the first polygon
PolygonDrawn ==
    /\ isDrawing
    /\ Len(drawingPoints) >= 3
    /\ polygons = <<>>
    /\ UserChange(finishDrawing(Store, now, "temperature", now))

\* the default rule that the upstream's series matches: '>= 10' is green
EditedRuleId == 2

\* handleUpdateRule
RuleEdited ==
    \E updates \in RuleUpdates :
        UserChange(updateColorRule(Store, EditedRuleId, updates))

\* the quick-select button of the last hour
TimelineMoved ==
    LET end == Min(now, timeline.endTime)
        start == Max2(end - Hour, timeline.startTime)
    IN  UserChange(setSelectedTimeRange(Store, start, end))

\* an effect that, finding no polygon, changes a dependency of the other one
RunEffect_SchedulesTheOther(effect) ==
    /\ effect \in pending
    /\ IF polygons = <<>>
       THEN UNCHANGED <<weatherDataCache, storeVars, fetchVars>>
       ELSE /\ nextRid <= MaxEffectCalls
            /\ StartFetch(Store, polygons[1], timeline.selectedStartTime,
                          timeline.selectedEndTime, selectedColorRules)
    /\ pending' = ((pending \ {effect}) \cup Triggered(Store, Store'))
                      \cup (IF polygons = <<>> THEN Effects \ {effect} ELSE {})
    /\ UNCHANGED <<now, ret, lastPut, call, changes>>

\* a scheduled effect runs: with no polygon it returns, with the polygon it
\* calls fetchWeatherData, which runs to its end when the cache has the data
RunEffect(effect) ==
    /\ effect \in pending
    /\ IF polygons = <<>>
       THEN UNCHANGED <<weatherDataCache, storeVars, fetchVars>>
       ELSE /\ nextRid <= MaxEffectCalls
            /\ StartFetch(Store, polygons[1], timeline.selectedStartTime,
                          timeline.selectedEndTime, selectedColorRules)
    /\ pending' = (pending \ {effect}) \cup Triggered(Store, Store')
    /\ UNCHANGED <<now, ret, lastPut, call, changes>>

\* updatePolygonData of MapContainer
MapEffectRuns == RunEffect("map")

\* updatePolygonColors of DataSourceSidebar
SidebarEffectRuns == RunEffect("sidebar")

\* axios.get resolves with the series of the upstream for the request
SeriesArrives ==
    /\ \E req \in inflight :
          Resolve(req, Response(req.latitude, req.longitude, UpstreamTime,
                                <<Num(8), Num(12)>>))
    /\ pending' = pending \cup Triggered(Store, Store')
    /\ UNCHANGED <<now, ret, lastPut, call, nextRid, changes>>

\* axios.get rejects after the timeout
RequestTimesOut ==
    /\ \E req \in inflight :
          LET thrown == AxiosError(0, "ECONNABORTED", "", "timeout of 10000ms exceeded")
              attempt == [actions |-> <<>>, thrown |-> thrown]
          IN  /\ StoreBecomes(ReduceAll(Store, CatchFinally(thrown)))
              /\ lastDone' = Done(req, attempt, FALSE, Null)
              /\ inflight' = inflight \ {req}
    /\ pending' = pending \cup Triggered(Store, Store')
    /\ UNCHANGED <<now, cacheVars, call, nextRid, changes>>

NextEffects ==
    \/ PolygonDrawn
    \/ RuleEdited
    \/ TimelineMoved
    \/ MapEffectRuns
    \/ SidebarEffectRuns
    \/ SeriesArrives
    \/ RequestTimesOut
    \/ TimePasses

\* the steps of NextEffects in which a scheduled effect runs: they are the
\* steps that give a call its number and, while there is no polygon, the
\* steps other than the user's that change the schedule
EffectStep ==
    /\ pending # {}
    /\ changes' = changes
    /\ IF polygons = <<>>
       THEN /\ pending' \in (SUBSET Effects) \ {pending}
            /\ nextRid' = nextRid
       ELSE /\ nextRid <= MaxEffectCalls
            /\ nextRid' = nextRid + 1
            /\ pending' \in SUBSET Effects

\* the steps of NextEffects in which a request is settled: no other step
\* takes a request out of flight
SettleStep ==
    /\ inflight # {}
    /\ inflight' \in {inflight \ {req} : req \in inflight}

\* React runs the effects it has scheduled, and every request is settled, by
\* the upstream or by the timeout of axios
SpecEffects ==
    /\ InitEffects
    /\ [][NextEffects]_vars
    /\ WF_<<pending, nextRid, changes>>(EffectStep)
    /\ WF_inflight(SettleStep)

Next ==
    \/ StartDrawing
    \/ AddDrawingPoint
    \/ FinishDrawing
    \/ CancelDrawing
    \/ DeletePolygon
    \/ TimePasses
    \/ StartRefresh
    \/ UpstreamResponds
    \/ UpstreamFails

Spec == Init /\ [][Next]_vars

(***************************************************************************)
(* Properties of the color-rule engine                                     *)
(***************************************************************************)
\* the indices of the rules of colorRules that match value
MatchingRules(value, colorRules) ==
    {i \in 1..Len(colorRules) : RuleMatches(value, colorRules[i])}

\* C1: applyColorRules returns the color of the matching rule that comes last
\* in ascending threshold order (the highest threshold; among equal thresholds
\* the one latest in the list), and the default color '#3388ff' when no rule
\* matches or the list is empty; with rules [>=10 green, >=25 red] the values
\* 30, 15 and 5 give red, green and the default color.
C1_LastMatchingRuleWins ==
    (call.fn = "applyColorRules" /\ ~Pending(call)) =>
        LET R == call.colorRules
            M == MatchingRules(call.value, R)
        IN  /\ M = {} => call.result = DefaultColor
            /\ M # {} =>
                 \E w \in M :
                    /\ \A j \in M : \/ R[j].value < R[w].value
                                    \/ (R[j].value = R[w].value /\ j <= w)
                    /\ call.result = R[w].color
            /\ R = TieredRules =>
                 /\ call.value = Num(30) => call.result = Red
                 /\ call.value = Num(15) => call.result = Green
                 /\ call.value = Num(5) => call.result = DefaultColor

\* a value that matches two rules of different thresholds, given lower rule last
C1_Witness ==
    /\ call.fn = "applyColorRules"
    /\ ~Pending(call)
    /\ call.value = Num(30)
    /\ call.colorRules = <<Rule(">=", 25, Red), Rule(">=", 10, Green)>>
    /\ call.result = Red

(***************************************************************************)
(* Properties of the aggregator                                            *)
(***************************************************************************)
\* the indices of the samples that are present and lie in the window
SamplesInWindow(c) ==
    {i \in 1..Len(c.timeArray) :
        /\ i <= Len(c.data)
        /\ c.data[i] # Null
        /\ ParsesToDate(c.timeArray[i])
        /\ c.startTime <= c.timeArray[i].iso
        /\ c.timeArray[i].iso <= c.endTime}

\* the indices of the present values of the whole series
PresentValues(c) == {i \in 1..Len(c.data) : c.data[i] # Null}

Max(S) == CHOOSE x \in S : \A y \in S : y <= x

RECURSIVE SumOver(_, _)
SumOver(data, I) ==
    IF I = {} THEN Num(0)
    ELSE LET i == CHOOSE x \in I : TRUE
         IN  RatAdd(data[i], SumOver(data, I \ {i}))

\* C8: when at least one present sample lies in [windowStart, windowEnd]
\* (bounds included), calculateAverageValue returns the arithmetic mean of
\* exactly those samples.
C8_MeanOfWindow ==
    (call.fn = "calculateAverageValue" /\ ~Pending(call)) =>
        LET I == SamplesInWindow(call)
        IN  I # {} =>
              call.result.n * Cardinality(I) * SumOver(call.data, I).d
                 = SumOver(call.data, I).n * call.result.d

\* two samples on the two bounds of the window are averaged, a third one
\* minute late is left out
C8_Witness ==
    /\ call.fn = "calculateAverageValue"
    /\ ~Pending(call)
    /\ call.timeArray = <<TimeStr(WindowStart), TimeStr(WindowEnd), TimeStr(WindowEnd + 1)>>
    /\ call.data = <<Num(4), Num(7), Num(7)>>
    /\ call.result = Rat(11, 2)

\* C9: when no present sample lies in the window, calculateAverageValue
\* returns the last present value of the whole series, whatever its
\* timestamp, and 0 when the series has no present value.
C9_Fallback ==
    (call.fn = "calculateAverageValue" /\ ~Pending(call)) =>
        (SamplesInWindow(call) = {} =>
            call.result = IF PresentValues(call) # {}
                          THEN call.data[Max(PresentValues(call))]
                          ELSE Num(0))

\* nothing in the window, the last present value is not the last element
C9_Witness ==
    /\ call.fn = "calculateAverageValue"
    /\ ~Pending(call)
    /\ call.timeArray = <<TimeStr(WindowEnd + 1), TimeStr(WindowEnd + 1)>>
    /\ call.data = <<Num(4), Num(7), Null>>
    /\ call.result = Num(7)

\* the rule lists that hold the rules of colorRules in some order
Reorderings(colorRules) ==
    { [i \in 1..Len(colorRules) |-> colorRules[f[i]]] :
        f \in Permutations(1..Len(colorRules)) }

\* C16: the color applyColorRules returns for a value does not depend on the
\* order in which the rules are passed, also when rules share a threshold.
C16_OrderInvariant ==
    (call.fn = "applyColorRules" /\ ~Pending(call)) =>
        \A reordered \in Reorderings(call.colorRules) :
            applyColorRules(call.value, reordered) = call.result

(***************************************************************************)
(* Properties of the date-range validator                                  *)
(***************************************************************************)
\* C10: the rules are tried in the order future start, span too large, start
\* too old, and the first that applies decides; a start after now always
\* resolves to [now - 24h, now].
C10_RuleOrder ==
    (call.fn = "validateDateRange" /\ ~Pending(call)) =>
        LET start == call.startDate
            end == call.endDate
            resolved == <<call.actualStartDate, call.actualEndDate>>
        IN  resolved =
              IF start > call.clock THEN <<call.clock - Day, call.clock>>
              ELSE IF end - start > 30 * Day THEN <<end - 30 * Day, end>>
              ELSE IF start < oldestDate THEN <<oldestDate, end>>
              ELSE <<start, end>>

\* start = now + 1d, end = now + 2d resolves to the last 24 hours
C10_Witness ==
    /\ call.fn = "validateDateRange"
    /\ ~Pending(call)
    /\ call.startDate = call.clock + Day
    /\ call.endDate = call.clock + 2 * Day
    /\ call.actualStartDate = call.clock - Day
    /\ call.actualEndDate = call.clock

\* a call of the validator has returned
Validated == call.fn = "validateDateRange" /\ ~Pending(call)

\* C11: with start <= now, a span of more than 30 days resolves to
\* [end - 30 days, end]; a span of 30 days or less keeps its end and is not
\* shortened (its start is the requested one, or the archive's first day when
\* the start is older than that).
C11_SpanClamp ==
    (Validated /\ call.startDate <= call.clock) =>
        IF call.endDate - call.startDate > 30 * Day
        THEN /\ call.actualStartDate = call.endDate - 30 * Day
             /\ call.actualEndDate = call.endDate
        ELSE /\ call.actualStartDate \in {call.startDate, oldestDate}
             /\ call.actualStartDate >= call.startDate
             /\ call.actualEndDate = call.endDate

\* start = now - 60d, end = now resolves to the 30 days that end at now
C11_Witness ==
    /\ Validated
    /\ call.startDate = call.clock - 60 * Day
    /\ call.endDate = call.clock
    /\ call.actualStartDate = call.clock - 30 * Day
    /\ call.actualEndDate = call.clock

\* C12: the resolved range has no future date: its start and its end are at
\* or before now.
C12_NoFutureDate ==
    Validated => (call.actualStartDate <= call.clock /\ call.actualEndDate <= call.clock)

\* C13: the resolved start is never before 1940-01-01, also when the span
\* rule decides.
C13_NotBeforeArchive ==
    Validated => call.actualStartDate >= oldestDate

(***************************************************************************)
(* Properties of the response cache                                        *)
(***************************************************************************)
\* the key strings two calls spell are the same
SameKey(a, b) ==
    /\ toFixed4(a.latitude) = toFixed4(b.latitude)
    /\ toFixed4(a.longitude) = toFixed4(b.longitude)
    /\ a.startDate = b.startDate
    /\ a.endDate = b.endDate

\* C4: a lookup with the same 4-decimal-rounded location and the same date
\* strings as the last cacheWeatherData, made before the cache duration has
\* elapsed since it, returns exactly the series stored, also when that
\* cacheWeatherData cleaned the cache up.
C4_RoundTrip ==
    (ret.op = "get" /\ lastPut.op = "put" /\ SameKey(ret, lastPut)
                    /\ ret.time - lastPut.time < CACHE_DURATION)
        => ret.data = lastPut.data

\* the 51st location has just been stored, ten entries were deleted, and the
\* lookup of the 51st location returns its series
C4_Witness ==
    /\ lastPut.op = "put"
    /\ lastPut.latitude = KeyLat(MaxCacheEntries + 1)
    /\ Len(weatherDataCache) = MaxCacheEntries + 1 - EvictCount
    /\ ret.op = "get"
    /\ ret.latitude = NearLat(MaxCacheEntries + 1)
    /\ ret.data = lastPut.data

\* a step of getCachedWeatherData
GetStep == ret'.op = "get" /\ now' = now

RemoveAt(seq, i) == SubSeq(seq, 1, i - 1) \o SubSeq(seq, i + 1, Len(seq))

\* the positions of the entries of cache stored under the key of the call c
EntriesFor(cache, c) ==
    {i \in 1..Len(cache) :
        cache[i].key = <<toFixed4(c.latitude), toFixed4(c.longitude), c.startDate, c.endDate>>}

\* C5: getCachedWeatherData never returns an entry that is 5 minutes old or
\* older; a lookup that finds such an entry returns absent and deletes
\* exactly that entry, all other entries staying as they are.
C5_Expiry ==
    [][GetStep =>
         LET found == EntriesFor(weatherDataCache, ret')
         IN  /\ ret'.data # Null =>
                  \E i \in found :
                     /\ now - weatherDataCache[i].timestamp < 5
                     /\ ret'.data = weatherDataCache[i].data
                     /\ weatherDataCache' = weatherDataCache
             /\ \A i \in found :
                  now - weatherDataCache[i].timestamp >= 5 =>
                     /\ ret'.data = Null
                     /\ weatherDataCache' = RemoveAt(weatherDataCache, i)
                     /\ Len(weatherDataCache') = Len(weatherDataCache) - 1
    ]_vars

\* the first location was looked up exactly 5 minutes after it was stored:
\* absent, its entry gone, the others still there
C5_Witness ==
    /\ ret.op = "get"
    /\ ret.latitude = NearLat(1)
    /\ ret.data = Null
    /\ lastPut.op = "put"
    /\ lastPut.latitude = KeyLat(1)
    /\ ret.time - lastPut.time = CACHE_DURATION
    /\ 1 \notin KeysIn(weatherDataCache)
    /\ Len(weatherDataCache) >= 2

\* C6: after every cacheWeatherData and getCachedWeatherData the cache holds
\* at most 50 entries.
C6_SizeBound == Len(weatherDataCache) <= 50

\* the cache is full
C6_Witness == Len(weatherDataCache) = 50 /\ lastPut.op = "put"

\* a step of cacheWeatherData that changes something
PutStep == lastPut' # lastPut

\* the entries after the set of cacheWeatherData and before its clean-up,
\* as a set of <<key, timestamp>>
AfterSet ==
    LET k == <<toFixed4(lastPut'.latitude), toFixed4(lastPut'.longitude),
               lastPut'.startDate, lastPut'.endDate>>
    IN  {<<weatherDataCache[i].key, weatherDataCache[i].timestamp>> :
            i \in {j \in 1..Len(weatherDataCache) : weatherDataCache[j].key # k}}
        \cup {<<k, now>>}

Left == {<<weatherDataCache'[i].key, weatherDataCache'[i].timestamp>> :
            i \in 1..Len(weatherDataCache')}

\* the cache holds the locations 1..n in this order, stored in this order
FilledInOrder(cache, n) ==
    /\ Len(cache) = n
    /\ \A i \in 1..n : cache[i].key[1] = i
    /\ \A i \in 1..(n - 1) : cache[i].timestamp <= cache[i + 1].timestamp

\* C7: when cacheWeatherData raises the size above 50, exactly 10 entries are
\* deleted, none of them stored later than an entry that stays; 51 distinct
\* locations stored into an empty cache leave 41 entries, the first 10 gone.
C7_Eviction ==
    [][PutStep =>
         /\ Cardinality(AfterSet) > 50 =>
              /\ Left \subseteq AfterSet
              /\ Cardinality(AfterSet \ Left) = 10
              /\ \A gone \in AfterSet \ Left : \A kept \in Left : gone[2] <= kept[2]
         /\ Cardinality(AfterSet) <= 50 => Left = AfterSet
         /\ (FilledInOrder(weatherDataCache, 50) /\ lastPut'.latitude = KeyLat(51)) =>
              /\ Len(weatherDataCache') = 41
              /\ KeysIn(weatherDataCache') = 11..51
    ]_vars

\* the first location was stored again later than the others, so that the
\* clean-up at the 51st location spared it and deleted the locations 2..11
C7_Witness ==
    /\ lastPut.op = "put"
    /\ lastPut.latitude = KeyLat(51)
    /\ Len(weatherDataCache) = 41
    /\ KeysIn(weatherDataCache) = {1} \cup (12..51)

(***************************************************************************)
(* Properties of a refresh that fails                                      *)
(***************************************************************************)
\* a step in which a call of fetchWeatherData returns: a request leaves
\* inflight, or a call is served from the cache
RefreshReturns ==
    \/ inflight' # inflight /\ inflight' \subseteq inflight
    \/ nextRid' # nextRid /\ inflight' = inflight

Failed(done) == done # NoDone /\ done.thrown # NoThrow

\* C2: a call of fetchWeatherData that fails, whatever the failure (rejected
\* request, timeout, body without the series), dispatches no
\* updatePolygonColor and leaves every polygon's color and value as they were
C2_FailureKeepsColor ==
    [][RefreshReturns /\ Failed(lastDone') =>
          /\ \A i \in 1..Len(lastDone'.log) : lastDone'.log[i].type # "updatePolygonColor"
          /\ polygons' = polygons]_vars

\* a refresh of a polygon that shows a rule's color and a value has failed
C2_Witness ==
    /\ Failed(lastDone)
    /\ \E i \in 1..Len(polygons) :
          /\ polygons[i].id = lastDone.polygonId
          /\ polygons[i].color = Green
          /\ polygons[i].value = Num(10)

\* the positions of the log that publish an error message
Published(log) ==
    {i \in 1..Len(log) : log[i].type = "setError" /\ log[i].error # NullError}

MissingSeriesFields(data) ==
    \/ "hourly" \notin DOMAIN data
    \/ "temperature_2m" \notin DOMAIN data.hourly
    \/ "time" \notin DOMAIN data.hourly

\* C3: every call of fetchWeatherData returns after its finally block; one
\* that fails publishes exactly one message to the error state, the four
\* class messages are pairwise distinct, and the class is decided in the
\* order: status 429 (rate limit), status >= 500 (unavailable), timeout,
\* body without the hourly series fields (invalid format)
C3_OneClassifiedError ==
    [][RefreshReturns =>
          LET done == lastDone'
              log == done.log
              thrown == done.thrown
          IN  /\ log[Len(log)] = SetLoading(FALSE)
              /\ Cardinality({RateLimitMessage, UnavailableMessage, TimeoutMessage,
                              InvalidFormatMessage}) = 4
              /\ Failed(done) =>
                    /\ Cardinality(Published(log)) = 1
                    /\ \A i \in Published(log) :
                          /\ error' = log[i].error
                          /\ thrown.isAxiosError /\ thrown.status = 429
                                => log[i].error = RateLimitMessage
                          /\ thrown.isAxiosError /\ thrown.status # 429 /\ thrown.status >= 500
                                => log[i].error = UnavailableMessage
                          /\ thrown.isAxiosError /\ thrown.status # 429 /\ thrown.status < 500
                                /\ thrown.code = "ECONNABORTED"
                                => log[i].error = TimeoutMessage
                          /\ done.data # Null /\ MissingSeriesFields(done.data)
                                => log[i].error = InvalidFormatMessage]_vars

\* a request rejected with status 429 and the timeout code has been
\* published as a rate-limit failure
C3_Witness ==
    /\ Failed(lastDone)
    /\ lastDone.thrown.isAxiosError
    /\ lastDone.thrown.status = 429
    /\ lastDone.thrown.code = "ECONNABORTED"
    /\ error = RateLimitMessage

\* a failure of none of the four classes: a rejected request that is neither
\* a 429, nor a 5xx, nor a timeout
CatchAllFailure(done) ==
    /\ Failed(done)
    /\ done.thrown.isAxiosError
    /\ done.thrown.status # 429
    /\ done.thrown.status < 500
    /\ done.thrown.code # "ECONNABORTED"

\* C17: a failure of the catch-all class is published with the message of
\* the error that was thrown.
C17_CatchAllOwnMessage ==
    CatchAllFailure(lastDone) =>
        \A i \in Published(lastDone.log) : lastDone.log[i].error = lastDone.thrown.message

(***************************************************************************)
(* Properties of a refresh that succeeds                                   *)
(***************************************************************************)
\* the values the updatePolygonColor actions of a log publish
PublishedValues(log) ==
    {log[i].value : i \in {j \in 1..Len(log) : log[j].type = "updatePolygonColor"}}

\* C14: the value a successful refresh publishes is the aggregate of the
\* returned series over the window the caller selected, as it was before the
\* validator adjusted it.
C14_AggregatesRequestedWindow ==
    [][\A req \in inflight \ inflight' :
          lastDone'.thrown = NoThrow =>
             PublishedValues(lastDone'.log) =
                {calculateAverageValue(lastDone'.data.hourly.temperature_2m,
                                       lastDone'.data.hourly.time,
                                       req.selectedStartTime, req.selectedEndTime)}]_vars

\* the positions of a log that publish the loading flag
LoadingAt(log) == {i \in 1..Len(log) : log[i].type = "setLoading"}

RequestKey(req) ==
    generateCacheKey(req.latitude, req.longitude, req.startDateStr, req.endDateStr)

\* cache holds an entry under key that is younger than the cache duration
Unexpired(cache, key, clock) ==
    \E i \in 1..Len(cache) :
        cache[i].key = key /\ clock - cache[i].timestamp < CACHE_DURATION

\* C22: a call of fetchWeatherData sends a request only when the cache has no
\* unexpired entry under its key, and then sends one; a call that sends none
\* returns an unexpired entry's data; when a request is settled, by a body or
\* by a failure (a timeout too), no request is sent again; a body received
\* is in the cache under the request's key, whether or not its series could
\* be aggregated.
C22_CacheThenOneRequest ==
    [][/\ \A req \in inflight' \ inflight :
             /\ ~Unexpired(weatherDataCache, RequestKey(req), now)
             /\ inflight' = inflight \cup {req}
             /\ req.rid = nextRid
             /\ nextRid' = nextRid + 1
       /\ (nextRid' # nextRid /\ inflight' = inflight) =>
             /\ lastDone'.hit
             /\ \E i \in 1..Len(weatherDataCache) :
                   /\ now - weatherDataCache[i].timestamp < CACHE_DURATION
                   /\ weatherDataCache[i].data = lastDone'.data
       /\ \A req \in inflight \ inflight' :
             /\ inflight' = inflight \ {req}
             /\ nextRid' = nextRid
             /\ ~lastDone'.hit
             /\ lastDone'.data # Null =>
                   \E i \in 1..Len(weatherDataCache') :
                       /\ weatherDataCache'[i].key = RequestKey(req)
                       /\ weatherDataCache'[i].data = lastDone'.data
                       /\ weatherDataCache'[i].timestamp = now]_vars

\* a call has returned an unexpired entry's data without a request, after the
\* request of an earlier call had put the entry there
C22_Witness ==
    /\ lastDone # NoDone
    /\ lastDone.hit
    /\ lastDone.thrown = NoThrow
    /\ inflight = {}
    /\ nextRid = 3
    /\ Len(weatherDataCache) = 1

\* C23: calls of fetchWeatherData for one polygon that overlap are not
\* cancelled and not ordered: the call whose request is settled leaves the
\* other requests in flight, publishes its value, and leaves the polygon with
\* that value and the color of the rules the call was started with, whether
\* or not a call started later has already published.
C23_LastCompletionWins ==
    [][\A req \in inflight \ inflight' :
          /\ inflight' = inflight \ {req}
          /\ lastDone'.thrown = NoThrow =>
                /\ PublishedValues(lastDone'.log) # {}
                /\ \A i \in 1..Len(polygons') :
                      polygons'[i].id = req.polygon.id =>
                          /\ PublishedValues(lastDone'.log) = {polygons'[i].value}
                          /\ polygons'[i].color =
                                 applyColorRules(polygons'[i].value, req.colorRules)]_vars

\* two calls for the polygon overlapped, the call started under the earlier
\* rules was settled last, and the polygon shows the color of those rules,
\* which is not the color of its value under the current rules
C23_Witness ==
    /\ inflight = {}
    /\ nextRid = 3
    /\ lastDone # NoDone
    /\ ~lastDone.hit
    /\ Len(polygons) = 1
    /\ polygons[1].value # Null
    /\ polygons[1].color = applyColorRules(polygons[1].value, defaultColorRules)
    /\ polygons[1].color # applyColorRules(polygons[1].value, selectedColorRules)

\* C25: the error of the store is one slot. A call of fetchWeatherData that
\* sends a request leaves it cleared; a call that fails leaves its own message
\* in it, whatever was there; a call served from the cache that succeeds
\* leaves it cleared; a request that is answered with a series leaves it
\* as it was. So a message stays no longer than until the next call starts,
\* and the slot holds what the last writer wrote.
C25_SingleErrorSlot ==
    [][/\ inflight' \ inflight # {} => error' = NullError
       /\ RefreshReturns =>
             LET log == lastDone'.log
             IN  IF Failed(lastDone')
                 THEN /\ Published(log) # {}
                      /\ error' # NullError
                      /\ \A i \in Published(log) : error' = log[i].error
                 ELSE IF lastDone'.hit
                 THEN error' = NullError
                 ELSE error' = error]_vars

\* a call has failed and published its message, and the next call has started
\* and has cleared the slot while it awaits its response
C25_Witness ==
    /\ lastDone # NoDone
    /\ Failed(lastDone)
    /\ inflight # {}
    /\ nextRid = 3
    /\ error = NullError

\* C26: while a call of fetchWeatherData awaits its response, the loading
\* flag of the store is true.
C26_LoadingWhileInFlight == inflight # {} => isLoading

\* C27: a body without the hourly series is never in the cache, and no call
\* served from the cache fails.
C27_MalformedNotCached ==
    /\ \A i \in 1..Len(weatherDataCache) : HasSeries(weatherDataCache[i].data)
    /\ (lastDone # NoDone /\ lastDone.hit) => ~Failed(lastDone)

\* C28: every key of weatherData is the id of a polygon of the polygon list.
C28_WeatherDataOfPolygons ==
    \A w \in weatherData :
        \E i \in 1..Len(polygons) : polygons[i].id = w.polygonId

(***************************************************************************)
(* Properties of the effects                                               *)
(***************************************************************************)
\* no effect is scheduled and no request awaits its response
Quiescent == pending = {} /\ inflight = {}

\* C24: when the one state change so far is the new polygon and every call it
\* led to has returned, fetchWeatherData has been called exactly once.
C24_OncePerPolygon ==
    (changes = 1 /\ Len(polygons) = 1 /\ Quiescent) => nextRid = 2

\* C29: the calls that the publications of the calls themselves trigger come
\* to an end: from some point on no effect is scheduled and no request is
\* in flight, and the effects never make as many calls as the model allows.
C29_ChainStops ==
    /\ <>[]Quiescent
    /\ [](nextRid <= MaxEffectCalls)

\* after the polygon was drawn, the calls of both effects, the calls their
\* publication triggered have all returned, and the polygon shows a value
C29_Witness ==
    /\ Quiescent
    /\ changes = 1
    /\ nextRid = 5
    /\ Len(polygons) = 1
    /\ polygons[1].value # Null

(***************************************************************************)
(* Properties of the polygon slice                                         *)
(***************************************************************************)
\* C19: whatever reducers of the polygon slice are dispatched, every polygon
\* of the slice has at least 3 points; a finishDrawing with fewer than 3
\* drawing points adds no polygon, leaves drawing mode and clears the points.
C19_AtLeastThreeVertices ==
    [][/\ \A i \in 1..Len(polygons') : Len(polygons'[i].points) >= 3
       /\ (DispatchFinishDrawing /\ Len(drawingPoints) < 3) =>
             /\ polygons' = polygons
             /\ isDrawing' = FALSE
             /\ drawingPoints' = <<>>]_vars

\* the slice holds one polygon of 3 points that has been renamed and colored,
\* and no drawing is in progress
C19_Witness ==
    /\ Len(polygons) = 1
    /\ Len(polygons[1].points) = 3
    /\ polygons[1].name = NewName
    /\ polygons[1].color = Green
    /\ ~isDrawing
    /\ drawingPoints = <<>>

\* C21: a drawing in progress never has more than 12 points, and every
\* polygon of the slice has at least 3 and at most 12 points.
C21_PointLimit ==
    /\ Len(drawingPoints) <= 12
    /\ \A i \in 1..Len(polygons) :
          /\ Len(polygons[i].points) >= 3
          /\ Len(polygons[i].points) <= 12

\* C30: the ids of the polygons of the slice are pairwise distinct, also
\* when two polygons are finished at the same reading of the clock.
C30_DistinctIds ==
    \A i, j \in 1..Len(polygons) :
        polygons[i].id = polygons[j].id => i = j

(***************************************************************************)
(* Properties of the timeline                                              *)
(***************************************************************************)
\* C20: in single-point mode the selected window is one instant, after the
\* switch, a slider change or a quick-select button.
C20_SinglePointWindow ==
    ~timeline.isRangeMode => timeline.selectedStartTime = timeline.selectedEndTime

\* in single-point mode the slider has been moved to an hour before the end
C20_Witness ==
    /\ ~timeline.isRangeMode
    /\ timeline.selectedStartTime = timeline.endTime - Hour
    /\ timeline.selectedEndTime = timeline.endTime - Hour

====
